---- MODULE Spec2Model ----
(***************************************************************************)
(* Multiplayer racing arena: the relay (server.js), the client's network   *)
(* layer (NetworkClient), the game coordinator (Game) and the vehicle's    *)
(* lap / collision state (Car).                                            *)
(*                                                                         *)
(* Representation choices, all stated where they are used:                 *)
(*  - a client is named by the id the relay assigns to its connection;     *)
(*  - the relay's clock (now) is in milliseconds and advances in steps;    *)
(*    the purge timer fires when the clock reaches a multiple of its       *)
(*    period;                                                              *)
(*  - positions are sampled on a one-dimensional integer grid (x only);    *)
(*    speeds are integers, products with 0.92 / 0.7 / 0.5 are truncated    *)
(*    toward zero;                                                         *)
(*  - frame time dt and the collision cooldown are in milliseconds;        *)
(*  - the geometry tests of a frame (which remote vehicles are within the  *)
(*    collision distance, which checkpoint lines the last displacement     *)
(*    crossed, whether the wall was hit) and the keyboard-driven outcome   *)
(*    of the physics step are inputs of the frame's steps; a frame runs    *)
(*    to its end before any other handler (fr is the frame in progress);   *)
(*  - connections are FIFO in each direction (up, down);                   *)
(*  - on the one-dimensional grid each position is its own track segment.  *)
(*                                                                         *)
(* The specifications run the same actions over different inputs: Spec     *)
(* (the relay: joins, disconnects, purges, round starts), SpecRound (the   *)
(* same with lives lost and falls), SpecSync (state synchronisation and    *)
(* pushes between peers), SpecRace (one client's frames, laps and rounds), *)
(* SpecPurge (the purge timer over two periods, SpecPurgeFair with the     *)
(* timer's fairness), SpecWire (texts of any kind on the connections),     *)
(* SpecOffline (clients without a connection), SpecFrames (frames at the   *)
(* browser's pace), SpecInterp (a remote vehicle's interpolation),         *)
(* SpecRoundFair (SpecRound with the fairness of the message handlers),    *)
(* SpecForge (clients sending relay-originated types), SpecFalls (cars     *)
(* leaving the platform), SpecBoost (one car's boost energy), SpecRide     *)
(* (one car on its track: surface and wall queries on a grid of one step   *)
(* per world unit) and SpecTracks (rounds between peers that each draw     *)
(* their own track).                                                       *)
(***************************************************************************)
EXTENDS Integers, Sequences, FiniteSets, TLC

\* ------------------------------------------------------------- bounds
MaxClients == 3        \* connections the relay accepts in a run
MaxDown == 3           \* messages in flight from the relay to one client
MaxUp == 1             \* messages in flight from one client to the relay
MaxPos == 1            \* positions are sampled in 0..MaxPos
MaxLap == 1            \* laps counted before the lap counter stops the run
MaxSent == 2           \* messages the clients send in a run of Spec or SpecSync
MaxSentRace == 3       \* messages the client sends in a run of SpecRace
MaxSentPurge == 3      \* messages the clients send in a run of SpecPurge
MaxNow == 60000        \* the relay's clock at the end of a run of Spec or SpecRound, ms

MaxNowPurge == 120000  \* the relay's clock at the end of a run of SpecPurge, ms
MaxTimer == 2000       \* frame time a boost timer is followed for, ms

\* ------------------------------------------------- program constants
StartLives == 3            \* server.js:46, Car.js:48-49 (lives, maxLives)
TotalCheckpoints == 4      \* Car.js:61 (totalCheckpoints)
NumCheckpoints == 4        \* Car.js:492 (Track.numCheckpoints)
CollisionCooldownTime == 500   \* Car.js:55, 0.5 s in ms
AttackerSpeedPct == 92     \* Game._checkCollisions: speed *= 0.92
WallSpeedPct == 70         \* Game._checkWallCollisions: speed *= 0.7
PushedSpeedPct == 50       \* Game._handleCollisionPush: speed *= 0.5

InactivityWindow == 30000  \* server.js:281, ms
PurgePeriod == 60000       \* server.js:286, ms

PI == 180                  \* Math.PI, angles in degrees
LerpPct == 30              \* Car.interpolate: position.lerp(predictedPos, 0.3)
RotLerpPct == 25           \* Car.interpolate: rotation.y += rotDiff * 0.25
PredictionFactor == 2      \* Car.interpolate: velocity * (dt * 2)

NoId == 0                  \* null (hostId, localId, winnerId)
Ids == 1..MaxClients
Positions == 0..MaxPos
Speeds == {0, 100}         \* speeds the physics step may leave the car with
Dts == {250, 500}          \* frame times, ms
ClockSteps == {15000}      \* steps of the relay's clock in SpecPurge, ms
PurgePeers == {1, 2}       \* the connections of SpecPurge, SpecWire and SpecOffline
OfflinePeers == Ids \ PurgePeers   \* the clients of SpecOffline that reach no relay
FrameGaps == {0, 250, 3000}    \* ms between two frames (3000: the tab was hidden)
StartXs == {0, 50}             \* rendered x of the remote vehicle, SpecInterp
StartYaws == {0, 720}          \* rendered yaw of the remote vehicle, SpecInterp
TargetXs == {-100, 100}        \* x of the last snapshot, SpecInterp
Velocities == {-100, 0, 100}   \* vx of the last snapshot, per second, SpecInterp
TargetYaws == {0, 90, 450, 630, -630}  \* rotY of the last snapshot, SpecInterp
Dirs == {-1, 0, 1}         \* normalised direction attacker -> target (0: coincident)

BoostMaxEnergy == 100000   \* Car.boostMaxEnergy = 1.0, in units of 0.00001
EnergyDrainRate == 80      \* Car.energyDrainRate = 0.8 per second, per ms here
EnergyRegenRate == 35      \* Car.energyRegenRate = 0.35 per second, per ms here
EnergyRegenDelay == 1000   \* Car.energyRegenDelay = 1.0 s, in ms
Layouts == {1, 2}          \* outcomes of the random draws of Track._generateSkeleton
TrackWidth == 12           \* Track.trackWidth
CarRadius == 1             \* Track.checkWallCollision: carRadius = 1.0
AltitudeLerpPct == 20      \* Car.altitudeLerpSpeed = 0.2
NoSegment == -1            \* no surface query has resolved a segment yet
Steps == {-1, 0, 1}        \* displacement of a frame along x and along z

VARIABLES
    nextClientId,      \* server.js:13
    playerStates,      \* server.js:15  id -> [lives, isDead, canPlay, lastUpdate]
    now,               \* the relay's clock, Date.now() since the relay started
    gameActive,        \* server.js:18
    roundInProgress,   \* server.js:19
    hostId,            \* server.js:20
    roundPlayers,      \* the players startNewGame put in the round (for the record)
    wsOpen,            \* wss.clients with readyState OPEN
    sent,              \* messages the clients have put on the wire so far, the
                       \* checkpoint and lap messages of a frame excepted
    up,                \* client -> relay messages in flight, per connection
    down,              \* relay -> client messages in flight, per connection
    cl,                \* the clients: NetworkClient + GameState + Game + Car
    fr,                \* the frame (Game.animate) in progress, if any
    pose,              \* one remote Car on one client's screen: mesh.position,
                       \* mesh.rotation.y, targetPos, targetRot, velocity
    track,             \* per client: the layout of sceneManager.track
    boost,             \* one local Car: boostEnergy, energyRegenTimer
    ride               \* one local Car on its track: mesh.position and the
                       \* segment its last surface query resolved to

vars == <<nextClientId, playerStates, now, gameActive, roundInProgress, hostId,
          roundPlayers, wsOpen, sent, up, down, cl, fr, pose, track, boost, ride>>
relayVars == <<nextClientId, playerStates, now, gameActive, roundInProgress, hostId,
               roundPlayers, wsOpen>>
\* the single cars followed on their own
sideVars == <<boost, ride>>

\* ------------------------------------------------------------ helpers
Min(S) == CHOOSE m \in S : \A n \in S : m <= n
Abs(n) == IF n < 0 THEN -n ELSE n
\* value * pct / 100, truncated toward zero (the code multiplies floats)
Scale(v, pct) == IF v < 0 THEN -((-v * pct) \div 100) ELSE (v * pct) \div 100
Restrict(f, S) == [k \in S |-> f[k]]

\* ----------------------------------------------------------- messages
\* One record shape for every wire message; a field a type does not carry is 0/FALSE.
Blank ==
    [type |-> "", sender |-> 0, from |-> 0, id |-> 0, x |-> 0, lives |-> 0,
     lap |-> 0, segmentId |-> 0, segmentT |-> 0, force |-> 0, count |-> 0,
     isHost |-> FALSE, canPlay |-> FALSE, gameActive |-> FALSE]

WelcomeMsg(id, isHost, canPlay, ga) ==
    [Blank EXCEPT !.type = "welcome", !.id = id, !.isHost = isHost,
                  !.canPlay = canPlay, !.gameActive = ga]
YouAreHostMsg == [Blank EXCEPT !.type = "you_are_host"]
DisconnectMsg(id) == [Blank EXCEPT !.type = "disconnect", !.id = id]
GameOverMsg(winnerId) == [Blank EXCEPT !.type = "game_over", !.id = winnerId]
GameRestartMsg(n) == [Blank EXCEPT !.type = "game_restart", !.count = n]
PushRelayMsg(target, force, from) ==
    [Blank EXCEPT !.type = "collision_push", !.id = target, !.force = force,
                  !.from = from]
\* Variant: a snapshot without the lives.
StateMsgNoLives(x, lives, lap) ==
    [Blank EXCEPT !.type = "state", !.x = x, !.lap = lap]

StateMsg(x, lives, lap) ==
    [Blank EXCEPT !.type = "state", !.x = x, !.lives = lives, !.lap = lap]
PushMsg(target, force) ==
    [Blank EXCEPT !.type = "collision_push", !.id = target, !.force = force]
StartGameMsg == [Blank EXCEPT !.type = "start_game"]
CheckpointMsg(i) == [Blank EXCEPT !.type = "checkpoint", !.id = i]
LapCompleteMsg(lap) == [Blank EXCEPT !.type = "lap_complete", !.lap = lap]
LivesUpdateMsg(lives) == [Blank EXCEPT !.type = "lives_update", !.lives = lives]
PlayerFellMsg == [Blank EXCEPT !.type = "player_fell"]

\* Texts that are no message of the protocol: one JSON.parse rejects, the text
\* `null`, and the object `{}` (no type).
UnparseableText == [Blank EXCEPT !.type = "unparseable"]
NullText == [Blank EXCEPT !.type = "null"]
UntypedObject == Blank
Malformed == {UnparseableText, NullText, UntypedObject}

\* Messages of the types the relay originates, as a client can write them.
Forged == {WelcomeMsg(2, TRUE, TRUE, TRUE), YouAreHostMsg, DisconnectMsg(1),
           GameRestartMsg(1), GameOverMsg(2)}

\* The try block throws: JSON.parse on text that is not JSON, or the first
\* property access (data.sender = id, msg.type) on null.
Throws(msg) == msg.type \in {"unparseable", "null"}

\* wss.clients.forEach(client => if OPEN and pred: client.send(m))
SendTo(dn, targets, m) ==
    [d \in DOMAIN dn |-> IF d \in targets THEN Append(dn[d], m) ELSE dn[d]]

\* ============================================================== relay
\* The relay's mutable state while one handler runs:
\*   [ps, ga, rip, host, dn] = playerStates, gameActive, roundInProgress, hostId, down;
\*   round = roundPlayers; now = Date.now() while the handler runs.

NewPlayerState(canPlay, t) ==
    [lives |-> StartLives, isDead |-> FALSE, canPlay |-> canPlay, lastUpdate |-> t]

PlayablePlayers(ps) == {id \in DOMAIN ps : ps[id].canPlay}
AlivePlayers(ps) == {id \in PlayablePlayers(ps) : ~ps[id].isDead /\ ps[id].lives > 0}

\* checkWinCondition(): alivePlayers[0] is the first alive key in insertion order,
\* and playerStates is filled in ascending id order.
CheckWinCondition(R, open) ==
    IF ~R.rip THEN R
    ELSE IF Cardinality(AlivePlayers(R.ps)) = 1 /\ Cardinality(PlayablePlayers(R.ps)) >= 2
    THEN [R EXCEPT !.rip = FALSE, !.ga = FALSE,
                   !.dn = SendTo(R.dn, open, GameOverMsg(Min(AlivePlayers(R.ps))))]
    ELSE IF Cardinality(AlivePlayers(R.ps)) = 0 /\ Cardinality(PlayablePlayers(R.ps)) >= 2
    THEN [R EXCEPT !.rip = FALSE, !.ga = FALSE,
                   !.dn = SendTo(R.dn, open, GameOverMsg(NoId))]
    ELSE R

\* startNewGame(): every stored player is reset and made playable.
StartNewGame(R, open) ==
    [R EXCEPT !.ga = TRUE, !.rip = TRUE, !.round = DOMAIN R.ps,
              !.ps = [id \in DOMAIN R.ps |->
                         [R.ps[id] EXCEPT !.lives = StartLives, !.isDead = FALSE,
                                          !.canPlay = TRUE]],
              !.dn = SendTo(R.dn, open, GameRestartMsg(Cardinality(DOMAIN R.ps)))]

\* Variant: no host check.
AnyoneMayStart(id, host) == TRUE

\* The host check of the start_game branch.
MayStartGame(id, host) == id = host

\* ws.on('message'): the type-specific branch, before the broadcast.
HandleByType(R, id, data, open) ==
    CASE data.type = "state" ->
            IF id \in DOMAIN R.ps
            THEN [R EXCEPT !.ps[id].lives = data.lives, !.ps[id].lastUpdate = R.now]
            ELSE R
      [] data.type = "lives_update" ->
            IF id \in DOMAIN R.ps
            THEN CheckWinCondition(
                     [R EXCEPT !.ps[id].lives = data.lives,
                               !.ps[id].isDead = (data.lives <= 0)], open)
            ELSE R
      [] data.type = "player_fell" ->
            IF id \in DOMAIN R.ps
            THEN CheckWinCondition([R EXCEPT !.ps[id].isDead = TRUE], open)
            ELSE R
      [] data.type = "collision_push" ->
            IF data.id # NoId
            THEN [R EXCEPT !.dn = SendTo(R.dn, open \cap {data.id},
                                         PushRelayMsg(data.id, data.force, id))]
            ELSE R
      [] data.type = "start_game" ->
            IF MayStartGame(id, R.host) THEN StartNewGame(R, open) ELSE R
      [] OTHER -> R

\* "Broadcast à tous les autres clients": every open client but the sender.
BroadcastTargets(id, open) == open \ {id}

\* ws.on('message') as a whole: stamp the sender, handle, broadcast.
OnMessage(R, id, msg, open) ==
    LET data == [msg EXCEPT !.sender = id]
        R1 == HandleByType(R, id, data, open)
    IN IF Throws(msg)
       THEN R      \* catch: console.warn
       ELSE [R1 EXCEPT !.dn = SendTo(R1.dn, BroadcastTargets(id, open), data)]

\* The replacement host: remainingPlayers[0], the first key of playerStates
\* (insertion order = ascending id) other than the closing one; null if none.
NewHost(ps, id) ==
    IF DOMAIN ps \ {id} # {} THEN Min(DOMAIN ps \ {id}) ELSE NoId

\* ws.on('close'); `open` is wss.clients without the closed socket.
OnClose(R, id, open) ==
    LET R1 == IF id = R.host
              THEN [R EXCEPT !.host = NewHost(R.ps, id),
                             !.dn = SendTo(R.dn, open \cap {NewHost(R.ps, id)},
                                           YouAreHostMsg)]
              ELSE R
        R2 == [R1 EXCEPT !.ps = Restrict(R1.ps, DOMAIN R1.ps \ {id}),
                         !.dn = SendTo(R1.dn, open, DisconnectMsg(id))]
    IN IF R2.rip THEN CheckWinCondition(R2, open) ELSE R2

\* Variant: an entry exactly as old as the window counts as inactive.
InactiveAtWindow(ps, t) == {id \in DOMAIN ps : t - ps[id].lastUpdate >= InactivityWindow}

\* The setInterval purge: entries with now - lastUpdate > 30000.
Inactive(ps, t) == {id \in DOMAIN ps : t - ps[id].lastUpdate > InactivityWindow}

RelayState == [ps |-> playerStates, ga |-> gameActive, rip |-> roundInProgress,
               host |-> hostId, dn |-> down, round |-> roundPlayers, now |-> now]

SetRelay(R) ==
    /\ playerStates' = R.ps
    /\ gameActive' = R.ga
    /\ roundInProgress' = R.rip
    /\ hostId' = R.host
    /\ roundPlayers' = R.round
    /\ down' = R.dn

Fits(dn) == \A d \in DOMAIN dn : Len(dn[d]) <= MaxDown

\* ================================================================ Track
\* The track is sampled on an integer grid (x, z horizontal, y the altitude), one
\* step per world unit. A skeleton here has 16 points around the origin, from
\* the angle 0 on, where _generateSkeleton draws 64 around a radius of 70, and a
\* segment spans two skeleton edges where _createSegments gives it 4; the
\* layouts differ by the altitudes drawn.
SkeletonXZ ==
    << <<12, 0>>, <<12, 4>>, <<8, 8>>, <<4, 12>>, <<0, 12>>, <<-4, 12>>, <<-8, 8>>,
       <<-12, 4>>, <<-12, 0>>, <<-12, -4>>, <<-8, -8>>, <<-4, -12>>, <<0, -12>>,
       <<4, -12>>, <<8, -8>>, <<12, -4>> >>
Altitudes(layout) ==
    IF layout = 1 THEN <<0, 0, 0, 2, 4, 6, 6, 4, 2, 0, 0, 0, 0, 0, 0, 0>>
    ELSE <<0, 0, 0, 0, 0, 0, 2, 4, 4, 2, 0, 0, 0, 0, 0, 0>>

Point(x, y, z) == [x |-> x, y |-> y, z |-> z]

\* Track._generateSkeleton(): this.skeletonPoints
SkeletonPoints(layout) ==
    [i \in 1..Len(SkeletonXZ) |->
        Point(SkeletonXZ[i][1], Altitudes(layout)[i], SkeletonXZ[i][2])]

\* (i + 1) % skeletonPoints.length, on indices from 1
NextIndex(i) == (i % Len(SkeletonXZ)) + 1

\* Track._createSegments(): the number of segments, and segment.nextSegment and
\* segment.prevSegment on ids from 1
NumSegments == Len(SkeletonXZ) \div 2
NextSegment(i) == (i % NumSegments) + 1
PrevSegment(i) == ((i + NumSegments - 2) % NumSegments) + 1

Clamp(v, lo, hi) == IF v < lo THEN lo ELSE IF v > hi THEN hi ELSE v
\* a / da < b / db and a / da = b / db for a, b >= 0 and da, db > 0, without
\* the products a * db and b * da
RatLess(a, da, b, db) ==
    \/ a \div da < b \div db
    \/ a \div da = b \div db /\ (a % da) * db < (b % db) * da
RatEq(a, da, b, db) ==
    a \div da = b \div db /\ (a % da) * db = (b % db) * da

\* Track.checkWallCollision(), one turn of the loop over the edges: the position
\* is projected on the edge p1-p2 in three dimensions, t clamped to [0, 1]; the
\* distance is taken in the horizontal plane. The result is exact: t = tn / len2,
\* the offset from the position to the projection is (ox, oz) / len2 and the
\* squared distance is dn / (len2 * len2).
ProjectOnEdge(sk, i, position) ==
    LET p1 == sk[i]
        p2 == sk[NextIndex(i)]
        lx == p2.x - p1.x
        ly == p2.y - p1.y
        lz == p2.z - p1.z
        len2 == lx * lx + ly * ly + lz * lz
        dot == (position.x - p1.x) * lx + (position.y - p1.y) * ly
               + (position.z - p1.z) * lz
        tn == Clamp(dot, 0, len2)
        ox == p1.x * len2 + lx * tn - position.x * len2
        oz == p1.z * len2 + lz * tn - position.z * len2
    IN [i |-> i, len2 |-> len2, tn |-> tn, ox |-> ox, oz |-> oz,
        dn |-> ox * ox + oz * oz]

\* Track.checkWallCollision(), the loop: the first edge at the least distance
\* (distance < closestDistance keeps the earlier edge on a tie).
RECURSIVE ClosestFrom(_, _, _, _)
ClosestFrom(sk, position, i, closest) ==
    IF i > Len(sk) THEN closest
    ELSE LET e == ProjectOnEdge(sk, i, position)
         IN ClosestFrom(sk, position, i + 1,
                        IF RatLess(e.dn, e.len2 * e.len2,
                                   closest.dn, closest.len2 * closest.len2)
                        THEN e ELSE closest)

ClosestEdge(sk, position) == ClosestFrom(sk, position, 2, ProjectOnEdge(sk, 1, position))

NoCollision == [isColliding |-> FALSE]

\* Track.checkWallCollision(position): null inside the corridor; outside, the
\* direction of the correction vector before it is normalised (its y is set
\* to 0) and the closest distance, squared, as dn / den, from which
\* penetrationDepth = closestDistance - maxDistance.
CheckWallCollision(layout, position) ==
    LET e == ClosestEdge(SkeletonPoints(layout), position)
        maxDistance == TrackWidth \div 2 - CarRadius
    IN IF e.dn > maxDistance * maxDistance * e.len2 * e.len2
       THEN [isColliding |-> TRUE, correctionVector |-> Point(e.ox, 0, e.oz),
             dn |-> e.dn, den |-> e.len2 * e.len2]
       ELSE NoCollision

\* Track._createSegments(): the points of segment i's curve that a search
\* samples, from tStart to tEnd: its two skeleton points, the first point of the
\* next segment (the curve passes through the skeleton points) and the middles
\* between them.
Middle(p1, p2) ==
    Point((p1.x + p2.x) \div 2, (p1.y + p2.y) \div 2, (p1.z + p2.z) \div 2)
SegmentSamples(sk, i) ==
    <<sk[2 * i - 1], Middle(sk[2 * i - 1], sk[2 * i]), sk[2 * i],
      Middle(sk[2 * i], sk[NextIndex(2 * i)]), sk[NextIndex(2 * i)]>>

\* Track._createSegments(): segment.bounds, padded by the track width.
InBounds(sk, i, position) ==
    LET pts == SegmentSamples(sk, i)
    IN /\ \E k \in 1..Len(pts) : position.x >= pts[k].x - TrackWidth
       /\ \E k \in 1..Len(pts) : position.x <= pts[k].x + TrackWidth
       /\ \E k \in 1..Len(pts) : position.z >= pts[k].z - TrackWidth
       /\ \E k \in 1..Len(pts) : position.z <= pts[k].z + TrackWidth

\* (position.x - point.x) ** 2 + (position.z - point.z) ** 2
Dist2(position, point) ==
    (position.x - point.x) * (position.x - point.x)
    + (position.z - point.z) * (position.z - point.z)

\* Track.getTrackSurfaceAt(), the sampling of one segment: the least distance
\* from the position to its samples and the altitude of the first sample at
\* that distance.
RECURSIVE NearestSampleFrom(_, _, _, _)
NearestSampleFrom(pts, position, k, best) ==
    IF k > Len(pts) THEN best
    ELSE NearestSampleFrom(pts, position, k + 1,
                           IF Dist2(position, pts[k]) < best.dist
                           THEN [dist |-> Dist2(position, pts[k]), altitude |-> pts[k].y]
                           ELSE best)

NearestSample(sk, i, position) ==
    LET pts == SegmentSamples(sk, i)
    IN NearestSampleFrom(pts, position, 2,
                         [dist |-> Dist2(position, pts[1]), altitude |-> pts[1].y])

\* Track.getTrackSurfaceAt(), the loop over segmentsToSearch: the first segment
\* with the nearest sample (dist < bestDist keeps the earlier one on a tie).
RECURSIVE BestSegmentFrom(_, _, _, _, _)
BestSegmentFrom(sk, position, segmentsToSearch, n, best) ==
    IF n > Len(segmentsToSearch) THEN best
    ELSE LET found == NearestSample(sk, segmentsToSearch[n], position)
         IN BestSegmentFrom(sk, position, segmentsToSearch, n + 1,
                            IF found.dist < best.dist
                            THEN [dist |-> found.dist, altitude |-> found.altitude,
                                  segmentId |-> segmentsToSearch[n]]
                            ELSE best)

\* Track.getTrackSurfaceAt(position, currentSegmentId): the segments to search
\* (the current one and its neighbours, or those whose bounds hold the position,
\* or all), then the segment of the nearest sample. Segments are numbered from 1.
GetTrackSurfaceAt(layout, position, currentSegmentId) ==
    LET sk == SkeletonPoints(layout)
        all == [i \in 1..NumSegments |-> i]
        Holds(i) == InBounds(sk, i, position)
        segmentsToSearch ==
            IF currentSegmentId # NoSegment /\ currentSegmentId \in 1..NumSegments
            THEN <<currentSegmentId, PrevSegment(currentSegmentId),
                   NextSegment(currentSegmentId)>>
            ELSE IF SelectSeq(all, Holds) = <<>> THEN all ELSE SelectSeq(all, Holds)
        first == NearestSample(sk, segmentsToSearch[1], position)
        best == BestSegmentFrom(sk, position, segmentsToSearch, 2,
                                [dist |-> first.dist, altitude |-> first.altitude,
                                 segmentId |-> segmentsToSearch[1]])
    IN [altitude |-> best.altitude, segmentId |-> best.segmentId]

\* ================================================================ Car
\* new Car(): no mesh until the model has loaded. moved: the position differs
\* from lastPosition, the position at the end of the last checkpoint check.
\* sinceHit: the frame time (sum of dt) since the car's collision check last
\* triggered, counted up to the cooldown time; it is kept for the record only.
NewCar ==
    [mesh |-> FALSE, x |-> 0, moved |-> FALSE, speed |-> 0, lives |-> StartLives,
     isDead |-> FALSE, currentLap |-> 0, checkpointsCleared |-> {},
     collisionCooldown |-> 0, sinceHit |-> CollisionCooldownTime]

\* The boost fields of a new Car. drained and sinceDrain are kept for the record
\* only: whether a tick has drained energy yet, and the frame time that has
\* passed since the last tick that did (counted up to MaxTimer).
NewBoost ==
    [boostEnergy |-> BoostMaxEnergy, energyRegenTimer |-> 0,
     drained |-> FALSE, sinceDrain |-> 0]

\* A local Car on the start line of its track, before any surface query.
NewRide ==
    [track |-> 1, position |-> Point(12, 0, 0), segmentId |-> NoSegment]

\* Car.followTrackSurface(track): the query is made with the position alone; the
\* altitude moves a fifth of the way to the surface (the car height offset of
\* 0.3 is below the grid step). segmentId records the segment of the answer.
FollowTrackSurface(r) ==
    LET surfaceInfo == GetTrackSurfaceAt(r.track, r.position, NoSegment)
    IN [r EXCEPT !.position.y = @ + Scale(surfaceInfo.altitude - @, AltitudeLerpPct),
                 !.segmentId = surfaceInfo.segmentId]

\* A remote player's record: a Car with a mesh (clone or placeholder box) and an
\* interpolation target; its rendered position is not part of this model.
NewRemote(targetX) ==
    [lives |-> StartLives, isDead |-> FALSE, currentLap |-> 0,
     checkpointsCleared |-> {}, targetX |-> targetX]

\* Car.resetLapProgress()
ResetLapProgress(car) == [car EXCEPT !.currentLap = 0, !.checkpointsCleared = {}]

\* Variant: a spawn that keeps the lap progress.
CarSpawnKeepLap(car, x) ==
    [car EXCEPT !.x = IF car.mesh THEN x ELSE @,
                !.moved = IF car.mesh THEN FALSE ELSE @,
                !.speed = 0, !.lives = StartLives, !.isDead = FALSE]

\* Car.spawn(x, y, z, rotY)
CarSpawn(car, x) ==
    ResetLapProgress([car EXCEPT !.x = IF car.mesh THEN x ELSE @,
                                 !.moved = IF car.mesh THEN FALSE ELSE @,
                                 !.speed = 0, !.lives = StartLives, !.isDead = FALSE])

\* Car.loseLife()
LoseLife(car) ==
    [car EXCEPT !.lives = IF @ > 0 THEN @ - 1 ELSE 0,
                !.isDead = @ \/ car.lives <= 1]

\* Car.passCheckpoint(i)
PassCheckpoint(car, i) ==
    [car EXCEPT !.checkpointsCleared = @ \cup {i}]

\* Variant: a lap counts with one checkpoint missing.
AllButOneCleared(car) == Cardinality(car.checkpointsCleared) >= TotalCheckpoints - 1

\* Car.allCheckpointsCleared()
AllCheckpointsCleared(car) == Cardinality(car.checkpointsCleared) >= TotalCheckpoints

\* Variant: the lap is counted but the cleared set is kept.
CompleteLapKeepSet(car) ==
    IF AllCheckpointsCleared(car) THEN [car EXCEPT !.currentLap = @ + 1] ELSE car

\* Car.completeLap(): the car afterwards (it returns true iff all were cleared).
CompleteLap(car) ==
    IF AllCheckpointsCleared(car)
    THEN [car EXCEPT !.currentLap = @ + 1, !.checkpointsCleared = {}]
    ELSE car

\* ============================================== NetworkClient and Game
\* One client: sock is the WebSocket ("none" before Game.init, then "open", then
\* "closed"); the GameState fields; the registry of remote players; the local car.
NewClient ==
    [sock |-> "none", localId |-> NoId, isHost |-> FALSE, canPlay |-> FALSE,
     isGameActive |-> FALSE, winnerId |-> NoId, remotePlayers |-> <<>>,
     car |-> NewCar]

\* NetworkClient._handleMessage, welcome branch (the Game handler only shows UI).
HandleWelcome(g, msg) ==
    [g EXCEPT !.localId = msg.id, !.isHost = msg.isHost, !.canPlay = msg.canPlay,
              !.isGameActive = msg.gameActive]

\* Variant: no message is taken for one's own.
NeverOwnState(g, msg) == FALSE

\* The id test of Game._handlePlayerState.
IsOwnState(g, msg) == msg.sender = g.localId

\* Game._handlePlayerState
HandlePlayerState(g, msg) ==
    IF IsOwnState(g, msg) THEN g
    ELSE IF msg.sender \notin DOMAIN g.remotePlayers
    THEN [g EXCEPT !.remotePlayers = (msg.sender :> NewRemote(msg.x)) @@ @]
    ELSE [g EXCEPT !.remotePlayers[msg.sender] =
                      [@ EXCEPT !.targetX = msg.x, !.lives = msg.lives,
                                !.isDead = (msg.lives <= 0), !.currentLap = msg.lap]]

\* Variant: the disconnect notice is ignored.
KeepOnDisconnect(g, msg) == g

\* Game._handleDisconnect
HandleDisconnect(g, msg) ==
    [g EXCEPT !.remotePlayers = Restrict(@, DOMAIN @ \ {msg.id})]

\* Variant: a push is applied whoever its target is.
PushAppliesToAnyone(g, msg) == g.car.mesh /\ ~g.car.isDead

\* The guard of Game._handleCollisionPush.
PushApplies(g, msg) == msg.id = g.localId /\ g.car.mesh /\ ~g.car.isDead

\* Game._handleCollisionPush
HandleCollisionPush(g, msg) ==
    IF PushApplies(g, msg)
    THEN [g EXCEPT !.car.x = @ + msg.force,
                   !.car.moved = @ \/ msg.force # 0,
                   !.car.speed = Scale(@, PushedSpeedPct)]
    ELSE g

\* Game._handleGameRestart; spawnX is GameState.getRandomSpawnPosition().
HandleGameRestart(g, spawnX) ==
    [g EXCEPT !.isGameActive = TRUE, !.winnerId = NoId, !.canPlay = TRUE,
              !.car = CarSpawn(@, spawnX),
              !.remotePlayers =
                  [id \in DOMAIN @ |->
                      ResetLapProgress([@[id] EXCEPT !.lives = StartLives,
                                                     !.isDead = FALSE])]]

\* Game._handleGameOver -> GameState.setWinner
HandleGameOver(g, msg) ==
    [g EXCEPT !.winnerId = msg.id, !.isGameActive = FALSE]

\* NetworkClient._handleMessage: the handler registered for msg.type, if any.
Dispatch(g, msg, spawnX) ==
    CASE Throws(msg) -> g      \* catch: console.warn
      [] msg.type = "welcome" -> HandleWelcome(g, msg)
      [] msg.type = "state" -> HandlePlayerState(g, msg)
      [] msg.type = "disconnect" -> HandleDisconnect(g, msg)
      [] msg.type = "collision_push" -> HandleCollisionPush(g, msg)
      [] msg.type = "you_are_host" -> [g EXCEPT !.isHost = TRUE]
      [] msg.type = "game_restart" -> HandleGameRestart(g, spawnX)
      [] msg.type = "game_over" -> HandleGameOver(g, msg)
      [] OTHER -> g

\* NetworkClient.send(): dropped unless the socket is open.
ClientSend(upq, g, msgs) == IF g.sock = "open" THEN upq \o msgs ELSE upq

\* The force of an emitted push along the grid axis:
\* collisionVector.x * (|speed| * 0.015 * 0.6 + 1.0), truncated to the grid.
PushForce(speed, dir) == dir * ((Abs(speed) * 9 + 1000) \div 1000)

\* Variant: the attacker recoils by one grid step.
AttackerRecoils(car) ==
    [car EXCEPT !.x = @ - 1, !.speed = Scale(@, AttackerSpeedPct),
                !.collisionCooldown = CollisionCooldownTime, !.sinceHit = 0]

\* What the attacker's own car becomes when its collision check triggers.
AttackerAfterHit(car) ==
    [car EXCEPT !.speed = Scale(@, AttackerSpeedPct),
                !.collisionCooldown = CollisionCooldownTime, !.sinceHit = 0]

\* Game._checkCollisions(dt): [car, sent]. `near` are the remote players within
\* the collision distance; the forEach runs in the registry's insertion order,
\* so the first eligible one triggers and sets the cooldown: `target` is that one.
Eligible(g, near) ==
    {id \in DOMAIN g.remotePlayers : id \in near /\ ~g.remotePlayers[id].isDead}

CooledDown(car, dt) ==
    IF car.collisionCooldown > 0
    THEN [car EXCEPT !.collisionCooldown = @ - dt]
    ELSE car

\* The frame time dt has passed since the previous frame.
Elapse(car, dt) ==
    [car EXCEPT !.sinceHit = IF @ + dt >= CollisionCooldownTime
                             THEN CollisionCooldownTime ELSE @ + dt]

CheckCollisions(g, dt, near, target, dir) ==
    IF ~g.car.mesh \/ g.car.isDead THEN [car |-> g.car, sent |-> <<>>]
    ELSE LET car1 == CooledDown(g.car, dt)
         IN IF target \in Eligible(g, near) /\ car1.collisionCooldown <= 0
            THEN [car |-> AttackerAfterHit(car1),
                  sent |-> <<PushMsg(target, PushForce(car1.speed, dir))>>]
            ELSE [car |-> car1, sent |-> <<>>]

\* Game._checkWallCollisions(): hit and corr are Track.checkWallCollision's answer.
CheckWallCollisions(g, hit, corr) ==
    IF ~g.car.mesh \/ g.car.isDead \/ ~hit THEN g.car
    ELSE [g.car EXCEPT !.x = @ + corr, !.moved = @ \/ corr # 0,
                       !.speed = Scale(@, WallSpeedPct)]

\* The checkpoint loop of Game._checkCheckpoints from index i on: `cps` are the
\* checkpoints whose line the last displacement crossed.
RECURSIVE PassFrom(_, _, _)
PassFrom(R, i, cps) ==
    IF i >= NumCheckpoints THEN R
    ELSE IF i \notin R.car.checkpointsCleared /\ i \in cps
    THEN PassFrom([car |-> PassCheckpoint(R.car, i),
                   sent |-> Append(R.sent, CheckpointMsg(i))], i + 1, cps)
    ELSE PassFrom(R, i + 1, cps)

\* Game._checkCheckpoints(): [car, sent]; fin is Track.checkFinishLine's answer.
\* It ends with lastPosition.copy(currentPos).
CheckCheckpoints(g, cps, fin) ==
    IF ~g.car.mesh \/ g.car.isDead THEN [car |-> g.car, sent |-> <<>>]
    ELSE LET R == PassFrom([car |-> g.car, sent |-> <<>>], 0, cps)
             R1 == IF AllCheckpointsCleared(R.car) /\ fin
                   THEN [car |-> CompleteLap(R.car),
                         sent |-> IF AllCheckpointsCleared(R.car)
                                  THEN Append(R.sent,
                                         LapCompleteMsg(CompleteLap(R.car).currentLap))
                                  ELSE R.sent]
                   ELSE R
         IN [R1 EXCEPT !.car.moved = FALSE]

\* canMove of Game.animate
CanMove(g) == ~g.car.isDead /\ g.isGameActive /\ g.canPlay

\* Car.updatePhysics(dt, canMove): speed and move are what the keys, the heading
\* and the integration leave the car with.
UpdatePhysics(g, dt, speed, move) ==
    IF ~g.car.mesh \/ g.car.isDead \/ ~CanMove(g) THEN g.car
    ELSE [CooledDown(g.car, dt) EXCEPT !.speed = speed, !.x = @ + move,
                                       !.moved = @ \/ move # 0]

\* ------------------------------------------- a remote vehicle's pose
\* new Car(scene, false) with its mesh: at the origin, heading 0, no target yet.
NewPose == [pos |-> 0, rotY |-> 0, targetPos |-> 0, targetRot |-> 0, velocity |-> 0]

\* Car.setTarget(x, y, z, rotY, vx, vz)
SetTarget(p, x, rotY, vx) ==
    [p EXCEPT !.targetPos = x, !.targetRot = rotY, !.velocity = vx]

\* predictedPos = targetPos + velocity * (dt * 2), dt in ms and velocity per second
PredictedPos(p, dt) == p.targetPos + (p.velocity * dt * PredictionFactor) \div 1000

\* Variant: a lerp that goes past its end point.
LerpPast(from, to) == from + Scale(to - from, 100 + LerpPct)

\* Vector3.lerp(v, alpha) with alpha = 0.3
Lerp(from, to) == from + Scale(to - from, LerpPct)

\* rotDiff of Car.interpolate: targetRot - currentRot after the two `if`s.
RotDiff(targetRot, currentRot) ==
    LET d0 == targetRot - currentRot
        d1 == IF d0 > PI THEN d0 - 2 * PI ELSE d0
    IN IF d1 < -PI THEN d1 + 2 * PI ELSE d1

\* Car.interpolate(dt); a remote car always has a mesh and a targetPos.
Interpolate(p, dt) ==
    [p EXCEPT !.pos = Lerp(p.pos, PredictedPos(p, dt)),
              !.rotY = p.rotY + Scale(RotDiff(p.targetRot, p.rotY), RotLerpPct)]

\* ============================================================ actions
\* fin: whether the frame's checkFinishLine answered true (crossedFinish).
NoFrame == [c |-> 0, phase |-> "idle", dt |-> 0, fin |-> FALSE]

Idle ==
    /\ nextClientId = 1
    /\ playerStates = <<>>
    /\ now = 0
    /\ gameActive = FALSE
    /\ roundInProgress = FALSE
    /\ hostId = NoId
    /\ roundPlayers = {}
    /\ wsOpen = {}
    /\ sent = 0
    /\ up = [c \in Ids |-> <<>>]
    /\ down = [c \in Ids |-> <<>>]
    /\ cl = [c \in Ids |-> NewClient]
    /\ fr = NoFrame

\* Every client's Track happened to be generated with the first layout.
SameTracks == [c \in Ids |-> 1]

Init == Idle /\ pose = NewPose /\ track = SameTracks /\ boost = NewBoost /\ ride = NewRide

\* A remote vehicle caught between two snapshots: rendered somewhere on its way
\* to an earlier target when setTarget stores the last snapshot it will get.
InitInterp ==
    /\ Idle /\ track = SameTracks /\ boost = NewBoost /\ ride = NewRide
    /\ pose \in {SetTarget([NewPose EXCEPT !.pos = x0, !.rotY = rot0], x, rotY, vx) :
                    x0 \in StartXs, rot0 \in StartYaws,
                    x \in TargetXs, rotY \in TargetYaws, vx \in Velocities}

\* Game.init() up to network.connect(), and the relay's wss.on('connection').
\* loaded: whether Car.loadModel resolved (then the car has a mesh and is spawned).
Connect(c, loaded, spawnX) ==
    /\ fr.c = 0
    /\ c = nextClientId
    /\ c <= MaxClients
    /\ nextClientId' = c + 1
    /\ hostId' = IF hostId = NoId THEN c ELSE hostId
    /\ playerStates' = (c :> NewPlayerState(~gameActive /\ ~roundInProgress, now)) @@ playerStates
    /\ down' = [down EXCEPT ![c] = <<WelcomeMsg(c, c = hostId',
                                                ~gameActive /\ ~roundInProgress,
                                                gameActive)>>]
    /\ wsOpen' = wsOpen \cup {c}
    /\ cl' = [cl EXCEPT ![c] =
                 [NewClient EXCEPT !.sock = "open",
                                   !.car = IF loaded
                                           THEN CarSpawn([NewCar EXCEPT !.mesh = TRUE], spawnX)
                                           ELSE NewCar]]
    /\ UNCHANGED <<sideVars, track, pose, now, gameActive, roundInProgress, roundPlayers, sent, up, fr>>

\* Game.init() where network.connect() rejects (the relay is not reachable): the
\* catch logs "Running in offline mode", no send timer starts, animate() starts.
ConnectFails(c, loaded, spawnX) ==
    /\ fr.c = 0
    /\ cl[c].sock = "none"
    /\ cl' = [cl EXCEPT ![c] =
                 [NewClient EXCEPT !.sock = "closed",
                                   !.car = IF loaded
                                           THEN CarSpawn([NewCar EXCEPT !.mesh = TRUE], spawnX)
                                           ELSE NewCar]]
    /\ UNCHANGED <<sideVars, track, pose, relayVars, sent, up, down, fr>>

\* The relay handles the next message of connection c.
RelayReceive(c) ==
    /\ fr.c = 0
    /\ c \in wsOpen
    /\ up[c] # <<>>
    /\ LET R == OnMessage(RelayState, c, Head(up[c]), wsOpen)
       IN Fits(R.dn) /\ SetRelay(R)
    /\ up' = [up EXCEPT ![c] = Tail(@)]
    /\ UNCHANGED <<sideVars, track, pose, nextClientId, now, wsOpen, sent, cl, fr>>

\* Connection c is lost: the relay's close handler runs, what was in flight on the
\* connection is gone, and the client's close handler stops its send timer.
Disconnect(c) ==
    /\ fr.c = 0
    /\ c \in wsOpen
    /\ LET R == OnClose([RelayState EXCEPT !.dn[c] = <<>>], c, wsOpen \ {c})
       IN Fits(R.dn) /\ SetRelay(R)
    /\ wsOpen' = wsOpen \ {c}
    /\ up' = [up EXCEPT ![c] = <<>>]
    /\ cl' = [cl EXCEPT ![c].sock = "closed"]
    /\ UNCHANGED <<sideVars, track, pose, nextClientId, now, sent, fr>>

\* d ms pass on the relay's clock without the purge timer coming due.
Tick(d) ==
    /\ fr.c = 0
    /\ (now + d) \div PurgePeriod = now \div PurgePeriod
    /\ now' = now + d
    /\ UNCHANGED <<sideVars, track, pose, nextClientId, playerStates, gameActive, roundInProgress, hostId,
                   roundPlayers, wsOpen, sent, up, down, cl, fr>>

\* The purge timer comes due (every 60 s) and its callback runs.
Purge ==
    /\ fr.c = 0
    /\ now' = PurgePeriod * ((now \div PurgePeriod) + 1)
    /\ playerStates' = Restrict(playerStates,
                                DOMAIN playerStates \ Inactive(playerStates, now'))
    /\ UNCHANGED <<sideVars, track, pose, nextClientId, gameActive, roundInProgress, hostId, roundPlayers,
                   wsOpen, sent, up, down, cl, fr>>

\* Game._handleGameRestart(): sceneManager.regenerateTrack() builds a new Track,
\* whose skeleton is drawn with Math.random(); layout is the outcome of the draws.
RegenerateTrack(tr, c, msg, layout) ==
    IF ~Throws(msg) /\ msg.type = "game_restart" THEN [tr EXCEPT ![c] = layout] ELSE tr

\* Client c handles the next message from the relay.
ClientReceiveTrack(c, spawnX, layout) ==
    /\ fr.c = 0
    /\ cl[c].sock = "open"
    /\ down[c] # <<>>
    /\ LET g == Dispatch(cl[c], Head(down[c]), spawnX)
       IN g.car.x \in Positions /\ cl' = [cl EXCEPT ![c] = g]
    /\ track' = RegenerateTrack(track, c, Head(down[c]), layout)
    /\ down' = [down EXCEPT ![c] = Tail(@)]
    /\ UNCHANGED <<sideVars, pose, relayVars, sent, up, fr>>

\* The same where a regenerated track comes out with the first layout.
ClientReceive(c, spawnX) == ClientReceiveTrack(c, spawnX, 1)

\* The socket of client c delivers a state message that did not come through the
\* relay's broadcast (which never returns a message to its sender): the handler
\* must cope with any sender id, its own included.
StateSamples ==
    {[StateMsg(x, lives, lap) EXCEPT !.sender = s] :
        x \in Positions, lives \in {0, StartLives}, lap \in 0..MaxLap, s \in 1..2}

SocketMessage(c, msg) ==
    /\ fr.c = 0
    /\ cl[c].sock = "open"
    /\ cl[c].localId # NoId
    /\ cl' = [cl EXCEPT ![c] = Dispatch(cl[c], msg, 0)]
    /\ UNCHANGED <<sideVars, track, pose, relayVars, sent, up, down, fr>>

\* The connection of c carries a text to the relay that no NetworkClient method
\* produced.
SendText(c, msg) ==
    /\ fr.c = 0
    /\ c \in wsOpen
    /\ Len(up[c]) < MaxUp
    /\ sent' = sent + 1
    /\ up' = [up EXCEPT ![c] = Append(@, msg)]
    /\ UNCHANGED <<sideVars, track, pose, relayVars, down, cl, fr>>

\* The socket of client c receives a text the relay's handlers did not produce.
SocketText(c, msg) ==
    /\ fr.c = 0
    /\ c \in wsOpen
    /\ Len(down[c]) < MaxDown
    /\ down' = [down EXCEPT ![c] = Append(@, msg)]
    /\ UNCHANGED <<sideVars, track, pose, relayVars, sent, up, cl, fr>>

\* car.getSegmentData(): the segment the car was last found on and its parameter
\* there.
GetSegmentData(car) == [segmentId |-> car.x, segmentT |-> 0]

\* NetworkClient.sendState(car), fired by the 50 ms timer of startStateUpdates.
SendState(c) ==
    /\ fr.c = 0
    /\ cl[c].sock = "open"
    /\ cl[c].car.mesh
    /\ Len(up[c]) < MaxUp
    /\ sent' = sent + 1
    /\ up' = [up EXCEPT ![c] =
                 Append(@, [StateMsg(cl[c].car.x, cl[c].car.lives, cl[c].car.currentLap)
                               EXCEPT !.segmentId = GetSegmentData(cl[c].car).segmentId,
                                      !.segmentT = GetSegmentData(cl[c].car).segmentT])]
    /\ UNCHANGED <<sideVars, track, pose, relayVars, down, cl, fr>>

\* NetworkClient.startGame(): the method itself checks no role.
StartGame(c) ==
    /\ fr.c = 0
    /\ cl[c].sock = "open"
    /\ Len(up[c]) < MaxUp
    /\ sent' = sent + 1
    /\ up' = [up EXCEPT ![c] = Append(@, StartGameMsg)]
    /\ UNCHANGED <<sideVars, track, pose, relayVars, down, cl, fr>>

\* NetworkClient.notifyFall() and notifyLivesChange(lives), which the fall-off
\* check of Game calls (src/src/Game.js; the check is switched off in part_000).
NotifyFall(c) ==
    /\ fr.c = 0
    /\ cl[c].sock = "open"
    /\ Len(up[c]) < MaxUp
    /\ sent' = sent + 1
    /\ up' = [up EXCEPT ![c] = Append(@, PlayerFellMsg)]
    /\ UNCHANGED <<sideVars, track, pose, relayVars, down, cl, fr>>

NotifyLivesChange(c, lives) ==
    /\ fr.c = 0
    /\ cl[c].sock = "open"
    /\ Len(up[c]) < MaxUp
    /\ sent' = sent + 1
    /\ up' = [up EXCEPT ![c] = Append(@, LivesUpdateMsg(lives))]
    /\ UNCHANGED <<sideVars, track, pose, relayVars, down, cl, fr>>

\* Variant: the energy regenerates in every tick without boost.
RegenAtOnce(timer) == TRUE

\* Car.updatePhysics(): this.energyRegenTimer >= this.energyRegenDelay
RegenDue(timer) == timer >= EnergyRegenDelay

\* Car.updatePhysics(dt, canMove), the boost logic: boosting is keys['shift'].
\* The method returns before it when the car may not move.
BoostLogic(b, dt, canMove, boosting) ==
    LET later == [b EXCEPT !.sinceDrain = @ + dt]
    IN IF ~canMove THEN later
       ELSE IF boosting /\ b.boostEnergy > 0
       THEN [b EXCEPT !.boostEnergy = IF @ - EnergyDrainRate * dt > 0
                                      THEN @ - EnergyDrainRate * dt ELSE 0,
                      !.energyRegenTimer = 0,
                      !.drained = TRUE, !.sinceDrain = 0]
       ELSE [later EXCEPT
                !.energyRegenTimer = @ + dt,
                !.boostEnergy =
                    IF RegenDue(b.energyRegenTimer + dt)
                    THEN (IF @ + EnergyRegenRate * dt < BoostMaxEnergy
                          THEN @ + EnergyRegenRate * dt ELSE BoostMaxEnergy)
                    ELSE @]

\* Game.animate(): localCar.updatePhysics(dt, canMove), as far as the boost
\* fields of the car go.
UpdateBoost(dt, canMove, boosting) ==
    /\ boost.sinceDrain + dt <= MaxTimer
    /\ boost.energyRegenTimer + dt <= MaxTimer
    /\ boost' = BoostLogic(boost, dt, canMove, boosting)
    /\ UNCHANGED <<ride, track, pose, relayVars, sent, up, down, cl, fr>>

\* The walls keep the car within a step of the corridor.
NearTrack(r) ==
    LET flat == [i \in 1..Len(SkeletonXZ) |-> Point(SkeletonXZ[i][1], 0, SkeletonXZ[i][2])]
        e == ClosestEdge(flat, [r.position EXCEPT !.y = 0])
        reach == TrackWidth \div 2 - CarRadius + 1
    IN e.dn <= reach * reach * e.len2 * e.len2

\* A frame of the local car on its track: the frame's displacement (wall
\* correction and physics step together) is an input, then the car follows the
\* track surface.
RideFrame(dx, dz) ==
    /\ LET moved == [ride EXCEPT !.position.x = @ + dx, !.position.z = @ + dz]
       IN NearTrack(moved) /\ ride' = FollowTrackSurface(moved)
    /\ UNCHANGED <<boost, track, pose, relayVars, sent, up, down, cl, fr>>

\* Car.spawn() at GameState.getRandomSpawnPosition(): on the start line (skeleton
\* point 0) with a lateral offset, at y = 0.2.
RideSpawn(lateralOffset) ==
    /\ ride' = [ride EXCEPT !.position = Point(SkeletonXZ[1][1] - lateralOffset, 0,
                                                SkeletonXZ[1][2])]
    /\ UNCHANGED <<boost, track, pose, relayVars, sent, up, down, cl, fr>>

\* Game._checkFallOff() of src/src/Game.js: out is the outcome of
\* gameState.isOutOfBounds(position), spawnX the random spawn position. The
\* result is the car and the messages handed to the socket.
CheckFallOff(g, out, spawnX) ==
    IF ~g.car.mesh \/ g.car.isDead \/ ~out THEN [car |-> g.car, sent |-> <<>>]
    ELSE LET fallen == LoseLife(g.car)
         IN IF fallen.lives > 0
            THEN [car |-> CarSpawn(fallen, spawnX),
                  sent |-> <<LivesUpdateMsg(fallen.lives)>>]
            ELSE [car |-> [fallen EXCEPT !.isDead = TRUE],
                  sent |-> <<LivesUpdateMsg(fallen.lives), PlayerFellMsg>>]

\* Game.animate() of src/src/Game.js: _checkFallOff(), run in every frame.
FallOff(c, out, spawnX) ==
    /\ fr.c = 0
    /\ cl[c].sock # "none"
    /\ up[c] = <<>>
    /\ LET R == CheckFallOff(cl[c], out, spawnX)
       IN /\ cl' = [cl EXCEPT ![c].car = R.car]
          /\ up' = [up EXCEPT ![c] = ClientSend(@, cl[c], R.sent)]
          /\ sent' = sent + Len(ClientSend(<<>>, cl[c], R.sent))
    /\ UNCHANGED <<sideVars, track, pose, relayVars, down, fr>>

\* Game.animate(): dt = Math.max(0, (now - this.prevTime) / 1000), here in ms;
\* elapsed is now - prevTime, the time since the previous frame.
FrameDt(elapsed) == IF elapsed > 0 THEN elapsed ELSE 0

\* Game.animate(): player.interpolate(dt) of the remote vehicle.
AnimateInterpolate(dt) ==
    /\ pose' = Interpolate(pose, dt)
    /\ UNCHANGED <<sideVars, track, relayVars, sent, up, down, cl, fr>>

\* Game.animate(), after the interpolation of the remote players:
\* _checkCollisions(dt).
AnimateCollisions(c, dt, near, target, dir) ==
    /\ fr.c = 0
    /\ cl[c].sock # "none"
    /\ up[c] = <<>>
    /\ LET R == CheckCollisions([cl[c] EXCEPT !.car = Elapse(@, dt)],
                                dt, near, target, dir)
       IN /\ cl' = [cl EXCEPT ![c].car = R.car]
          /\ up' = [up EXCEPT ![c] = ClientSend(@, cl[c], R.sent)]
          /\ sent' = sent + Len(ClientSend(<<>>, cl[c], R.sent))
    /\ fr' = [c |-> c, phase |-> "wall", dt |-> dt, fin |-> FALSE]
    /\ UNCHANGED <<sideVars, track, pose, relayVars, down>>

\* Game.animate(): _checkWallCollisions(). A wall is reached only by a displacement.
AnimateWall(hit, corr) ==
    /\ fr.phase = "wall"
    /\ hit => cl[fr.c].car.moved
    /\ LET car == CheckWallCollisions(cl[fr.c], hit, corr)
       IN car.x \in Positions /\ cl' = [cl EXCEPT ![fr.c].car = car]
    /\ fr' = [fr EXCEPT !.phase = "checkpoints"]
    /\ UNCHANGED <<sideVars, track, pose, relayVars, sent, up, down>>

\* Game.animate(): _checkCheckpoints(). A line is crossed only by a displacement.
AnimateCheckpoints(cps, fin) ==
    /\ fr.phase = "checkpoints"
    /\ (cps # {} \/ fin) => cl[fr.c].car.moved
    /\ fin => cl[fr.c].car.currentLap < MaxLap
    /\ LET R == CheckCheckpoints(cl[fr.c], cps, fin)
       IN /\ cl' = [cl EXCEPT ![fr.c].car = R.car]
          /\ up' = [up EXCEPT ![fr.c] = ClientSend(@, cl[fr.c], R.sent)]
    /\ fr' = [fr EXCEPT !.phase = "physics", !.fin = fin]
    /\ UNCHANGED <<sideVars, track, pose, relayVars, sent, down>>

\* Game.animate(): _checkFallOff() (its body is commented out) and
\* localCar.updatePhysics(dt, canMove); the frame ends.
AnimatePhysics(speed, move) ==
    /\ fr.phase = "physics"
    /\ LET car == UpdatePhysics(cl[fr.c], fr.dt, speed, move)
       IN car.x \in Positions /\ cl' = [cl EXCEPT ![fr.c].car = car]
    /\ fr' = NoFrame
    /\ UNCHANGED <<sideVars, track, pose, relayVars, sent, up, down>>

\* ------------------------------------------------------ specifications
\* The relay and its clients: joins, disconnects, purges, round starts. No car
\* model has loaded, so no client sends state and no frame moves a car.
Next ==
    \/ \E c \in Ids : Connect(c, FALSE, 0)
    \/ \E c \in Ids : RelayReceive(c)
    \/ \E c \in Ids : Disconnect(c)
    \/ Tick(InactivityWindow) /\ now' <= MaxNow
    \/ Purge /\ now' <= MaxNow
    \/ \E c \in Ids : ClientReceive(c, 0)
    \/ \E c \in Ids : StartGame(c) /\ sent' <= MaxSent

Spec == Init /\ [][Next]_vars

\* The same with players losing their lives or falling out during a round.
NextRound ==
    \/ \E c \in Ids : Connect(c, FALSE, 0)
    \/ \E c \in Ids : RelayReceive(c)
    \/ \E c \in Ids : Disconnect(c)
    \/ Tick(InactivityWindow) /\ now' <= MaxNow
    \/ Purge /\ now' <= MaxNow
    \/ \E c \in Ids : ClientReceive(c, 0)
    \/ \E c \in Ids : StartGame(c) /\ sent' <= MaxSent
    \/ \E c \in Ids : NotifyFall(c) /\ sent' <= MaxSent
    \/ \E c \in Ids : NotifyLivesChange(c, 0) /\ sent' <= MaxSent

SpecRound == Init /\ [][NextRound]_vars

\* The relay's and the clients' event loops handle every message that has
\* arrived.
RelayHandlesNext == \E c \in Ids : RelayReceive(c)
ClientHandlesNext == \E c \in Ids : ClientReceive(c, 0)

SpecRoundFair == SpecRound /\ WF_vars(RelayHandlesNext) /\ WF_vars(ClientHandlesNext)

\* State synchronisation and pushes between loaded clients, within one inactivity
\* window and before any round starts; the frames cross no checkpoint and hit no
\* wall.
NextSync ==
    \/ \E c \in Ids : Connect(c, TRUE, 0)
    \/ \E c \in Ids : RelayReceive(c)
    \/ \E c \in Ids : Disconnect(c)
    \/ \E c \in Ids : ClientReceive(c, 0)
    \/ \E c \in Ids : SendState(c) /\ sent' <= MaxSent
    \/ \E c \in Ids, target \in Ids, dir \in Dirs :
           AnimateCollisions(c, 500, {target}, target, dir) /\ sent' <= MaxSent
    \/ AnimateWall(FALSE, 0)
    \/ AnimateCheckpoints({}, FALSE)
    \/ AnimatePhysics(0, 0)

SpecSync == Init /\ [][NextSync]_vars

\* One client driving: rounds, frames with every geometry outcome, and state
\* messages of any sender arriving in between.
NextRace ==
    \/ Connect(1, TRUE, 0)
    \/ RelayReceive(1)
    \/ \E spawnX \in Positions : ClientReceive(1, spawnX)
    \/ StartGame(1) /\ sent' <= MaxSentRace
    \/ \E msg \in StateSamples : SocketMessage(1, msg)
    \/ \E dt \in Dts, target \in {2}, dir \in Dirs :
           AnimateCollisions(1, dt, {target}, target, dir) /\ sent' <= MaxSentRace
    \/ \E hit \in BOOLEAN, corr \in {-1, 1} : AnimateWall(hit, corr)
    \/ \E cps \in SUBSET (0..(NumCheckpoints - 1)), fin \in BOOLEAN :
           AnimateCheckpoints(cps, fin)
    \/ \E speed \in Speeds, move \in {-1, 0, 1} : AnimatePhysics(speed, move)

SpecRace == Init /\ [][NextRace]_vars

\* The purge timer against peers that send state or stay silent, over two periods
\* of the timer.
NextPurge ==
    \/ \E c \in PurgePeers : Connect(c, TRUE, 0)
    \/ \E c \in PurgePeers : RelayReceive(c)
    \/ \E c \in PurgePeers : Disconnect(c)
    \/ \E c \in PurgePeers : ClientReceive(c, 0)
    \/ \E c \in PurgePeers : SendState(c) /\ sent' <= MaxSentPurge
    \/ \E d \in ClockSteps : Tick(d) /\ now' <= MaxNowPurge
    \/ Purge /\ now' <= MaxNowPurge

SpecPurge == Init /\ [][NextPurge]_vars

\* setInterval keeps its callback scheduled: the timer fires each time it is due.
PurgeDue == Purge /\ now' <= MaxNowPurge

SpecPurgeFair == SpecPurge /\ WF_vars(PurgeDue)

\* Texts of any kind on the connections of two peers, between well-formed
\* messages.
NextWire ==
    \/ \E c \in PurgePeers : Connect(c, TRUE, 0)
    \/ \E c \in PurgePeers : RelayReceive(c)
    \/ \E c \in PurgePeers : Disconnect(c)
    \/ \E c \in PurgePeers : ClientReceive(c, 0)
    \/ \E c \in PurgePeers : SendState(c) /\ sent' <= MaxSent
    \/ \E c \in PurgePeers : StartGame(c) /\ sent' <= MaxSent
    \/ \E c \in PurgePeers, msg \in Malformed : SendText(c, msg) /\ sent' <= MaxSent
    \/ \E c \in PurgePeers, msg \in Malformed : SocketText(c, msg)

SpecWire == Init /\ [][NextWire]_vars

\* Clients that lose their connection, before or during a round, or never get
\* one, and keep running frames.
NextOffline ==
    \/ \E c \in PurgePeers : Connect(c, TRUE, 0)
    \/ \E c \in OfflinePeers : ConnectFails(c, TRUE, 0)
    \/ \E c \in PurgePeers : RelayReceive(c)
    \/ \E c \in PurgePeers : Disconnect(c)
    \/ \E c \in PurgePeers : ClientReceive(c, 0)
    \/ \E c \in PurgePeers : StartGame(c) /\ sent' <= MaxSent
    \/ \E c \in Ids, target \in PurgePeers :
           AnimateCollisions(c, 500, {target}, target, 1) /\ sent' <= MaxSent
    \/ AnimateWall(FALSE, 0)
    \/ AnimateCheckpoints({}, FALSE)
    \/ \E speed \in Speeds, move \in {0, 1} : AnimatePhysics(speed, move)

SpecOffline == Init /\ [][NextOffline]_vars

\* One client's frames at the pace the browser gives them.
NextFrames ==
    \/ Connect(1, TRUE, 0)
    \/ RelayReceive(1)
    \/ \E spawnX \in Positions : ClientReceive(1, spawnX)
    \/ StartGame(1) /\ sent' <= MaxSent
    \/ SendState(1) /\ sent' <= MaxSent
    \/ \E msg \in StateSamples : SocketMessage(1, msg)
    \/ \E elapsed \in FrameGaps, dir \in Dirs :
           AnimateCollisions(1, FrameDt(elapsed), {2}, 2, dir) /\ sent' <= MaxSent
    \/ \E hit \in BOOLEAN, corr \in {-1, 1} : AnimateWall(hit, corr)
    \/ AnimateCheckpoints({}, FALSE)
    \/ \E speed \in Speeds, move \in {-1, 0, 1} : AnimatePhysics(speed, move)

SpecFrames == Init /\ [][NextFrames]_vars

\* Two loaded clients whose cars leave the platform during rounds.
NextFalls ==
    \/ \E c \in PurgePeers : Connect(c, TRUE, 0)
    \/ \E c \in PurgePeers : RelayReceive(c)
    \/ \E c \in PurgePeers : Disconnect(c)
    \/ \E c \in PurgePeers, spawnX \in Positions : ClientReceive(c, spawnX)
    \/ \E c \in PurgePeers : StartGame(c) /\ sent' <= MaxSentRace
    \/ \E c \in PurgePeers, out \in BOOLEAN, spawnX \in Positions :
           FallOff(c, out, spawnX) /\ sent' <= MaxSentRace

SpecFalls == Init /\ [][NextFalls]_vars

\* One car's boost energy over frames with and without the shift key, some of
\* them while the car may not move.
NextBoost ==
    \E dt \in Dts, canMove \in BOOLEAN, boosting \in BOOLEAN :
        UpdateBoost(dt, canMove, boosting)

SpecBoost == Init /\ [][NextBoost]_vars

\* One car driven around its track, respawned on the start line now and then.
InitRide ==
    /\ Idle /\ pose = NewPose /\ track = SameTracks /\ boost = NewBoost
    /\ ride \in {[NewRide EXCEPT !.track = layout] : layout \in Layouts}

NextRide ==
    \/ \E dx \in Steps, dz \in Steps : RideFrame(dx, dz)
    \/ \E lateralOffset \in Steps : RideSpawn(lateralOffset)

SpecRide == InitRide /\ [][NextRide]_vars

\* Rounds between peers whose tracks come out of their own random draws, at
\* load and at each restart.
InitTracks ==
    /\ Idle /\ pose = NewPose /\ boost = NewBoost /\ ride = NewRide
    /\ track \in [Ids -> Layouts]

NextTracks ==
    \/ \E c \in Ids : Connect(c, FALSE, 0)
    \/ \E c \in Ids : RelayReceive(c)
    \/ \E c \in Ids : Disconnect(c)
    \/ \E c \in Ids, layout \in Layouts : ClientReceiveTrack(c, 0, layout)
    \/ \E c \in Ids : StartGame(c) /\ sent' <= MaxSent

SpecTracks == InitTracks /\ [][NextTracks]_vars

\* One remote vehicle on a client's screen after its last snapshot: frames
\* interpolate its pose.
NextInterp == \E elapsed \in FrameGaps : AnimateInterpolate(FrameDt(elapsed))

SpecInterp == InitInterp /\ [][NextInterp]_vars

\* Peers that write messages of the relay's own types on their connections.
NextForge ==
    \/ \E c \in PurgePeers : Connect(c, FALSE, 0)
    \/ \E c \in PurgePeers : RelayReceive(c)
    \/ \E c \in PurgePeers : Disconnect(c)
    \/ \E c \in PurgePeers : ClientReceive(c, 0)
    \/ \E c \in PurgePeers : StartGame(c) /\ sent' <= MaxSent
    \/ \E c \in PurgePeers, msg \in Forged : SendText(c, msg) /\ sent' <= MaxSent

SpecForge == Init /\ [][NextForge]_vars

\* ================================================================ claims
\* Which step is being taken, read off the two states.
\* The relay handles a message of the given type from connection c.
RelayHandles(c, type) ==
    /\ c \in wsOpen /\ wsOpen' = wsOpen
    /\ up[c] # <<>> /\ up'[c] = Tail(up[c])
    /\ Head(up[c]).type = type

\* Client c handles a message of the given type from the relay.
ClientHandles(c, type) ==
    /\ cl[c].sock = "open" /\ cl'[c].sock = "open"
    /\ down[c] # <<>> /\ down'[c] = Tail(down[c])
    /\ Head(down[c]).type = type

\* The checkpoint check of a frame of client c.
ChecksCheckpoints(c) == fr.c = c /\ fr.phase = "checkpoints" /\ fr'.phase = "physics"

\* The messages client c puts on the wire in this step.
NewlySent(c) == SubSeq(up'[c], Len(up[c]) + 1, Len(up'[c]))
NewlyPassed(c) ==
    {NewlySent(c)[i].id : i \in {j \in 1..Len(NewlySent(c)) :
                                    NewlySent(c)[j].type = "checkpoint"}}
LapSignals(c) ==
    {i \in 1..Len(NewlySent(c)) : NewlySent(c)[i].type = "lap_complete"}
AllCheckpoints == 0..(NumCheckpoints - 1)
Left(d) == d < nextClientId /\ d \notin wsOpen

\* C1: the local car's currentLap grows only by one, in the checkpoint check of a
\* frame whose displacement crossed the finish line while the cleared set (with
\* the checkpoints crossed by the same displacement) holds every checkpoint of
\* the track; a finish-line crossing with an incomplete set leaves currentLap
\* unchanged and clears nothing.
C1_LapOnlyOnFullSet ==
    [][\A c \in Ids :
        /\ cl'[c].car.currentLap > cl[c].car.currentLap =>
              /\ cl'[c].car.currentLap = cl[c].car.currentLap + 1
              /\ ChecksCheckpoints(c) /\ fr'.fin
              /\ cl[c].car.checkpointsCleared \cup NewlyPassed(c) = AllCheckpoints
        /\ ( /\ ChecksCheckpoints(c) /\ fr'.fin /\ cl[c].sock = "open"
             /\ cl[c].car.checkpointsCleared \cup NewlyPassed(c) # AllCheckpoints ) =>
              /\ cl'[c].car.currentLap = cl[c].car.currentLap
              /\ cl'[c].car.checkpointsCleared =
                     cl[c].car.checkpointsCleared \cup NewlyPassed(c)
              /\ LapSignals(c) = {}
    ]_vars

\* The finish line was crossed with one checkpoint missing, and nothing happened.
C1_Witness ==
    /\ fr.c = 1 /\ fr.phase = "physics" /\ fr.fin
    /\ Cardinality(cl[1].car.checkpointsCleared) = NumCheckpoints - 1
    /\ cl[1].car.currentLap = 0

\* C2: when the finish line is crossed by a live car whose cleared set (with the
\* checkpoints crossed by the same displacement) holds every checkpoint,
\* currentLap grows by exactly one, checkpointsCleared becomes empty, and, the
\* socket being open, exactly one lap_complete is sent, carrying the new lap.
C2_FullSetCompletesLap ==
    [][\A c \in Ids :
        ( /\ ChecksCheckpoints(c) /\ fr'.fin
          /\ cl[c].car.mesh /\ ~cl[c].car.isDead /\ cl[c].sock = "open"
          /\ cl[c].car.checkpointsCleared \cup NewlyPassed(c) = AllCheckpoints ) =>
            /\ cl'[c].car.currentLap = cl[c].car.currentLap + 1
            /\ cl'[c].car.checkpointsCleared = {}
            /\ Cardinality(LapSignals(c)) = 1
            /\ \A i \in LapSignals(c) :
                  NewlySent(c)[i] = LapCompleteMsg(cl'[c].car.currentLap)
    ]_vars

\* A first lap has just been completed: lap 1, empty set, lap_complete(1) last on
\* the wire after the checkpoint messages.
C2_Witness ==
    /\ fr.c = 1 /\ fr.phase = "physics" /\ fr.fin
    /\ cl[1].car.currentLap = 1 /\ cl[1].car.checkpointsCleared = {}
    /\ up[1] # <<>> /\ up[1][Len(up[1])] = LapCompleteMsg(1)

\* C3: after a spawn (the car's first, at start-up) or a respawn (game_restart),
\* the local car has currentLap 0 and an empty checkpointsCleared set, and so has
\* every remote car the restart resets, whatever progress they had.
C3_SpawnResetsLapProgress ==
    [][\A c \in Ids :
        ( \/ ClientHandles(c, "game_restart")
          \/ (cl[c].sock = "none" /\ cl'[c].sock = "open") ) =>
            /\ cl'[c].car.currentLap = 0
            /\ cl'[c].car.checkpointsCleared = {}
            /\ \A r \in DOMAIN cl'[c].remotePlayers :
                  /\ cl'[c].remotePlayers[r].currentLap = 0
                  /\ cl'[c].remotePlayers[r].checkpointsCleared = {}
    ]_vars

\* The car is back at lap 0 while the lap_complete of its finished lap is still
\* on the wire: a respawn has wiped a completed lap.
C3_Witness ==
    /\ cl[1].car.currentLap = 0 /\ cl[1].car.checkpointsCleared = {}
    /\ cl[1].isGameActive
    /\ \E i \in 1..Len(up[1]) : up[1][i] = LapCompleteMsg(1)

C5_HostIsConnectedPeer ==
    /\ Cardinality({c \in wsOpen : cl[c].isHost}) <= 1
    /\ wsOpen # {} => hostId \in wsOpen

\* C6: when the host's connection closes while other peers are connected, the
\* first of them by join order becomes the relay's host and a you_are_host is put
\* on its connection; a peer that handles you_are_host takes itself for the host.
C6_FirstRemainingPeerPromoted ==
    [][\A c \in Ids :
        /\ (c = hostId /\ c \in wsOpen /\ wsOpen' = wsOpen \ {c} /\ wsOpen' # {}) =>
              /\ hostId' = Min(wsOpen')
              /\ Len(down'[hostId']) > Len(down[hostId'])
              /\ down'[hostId'][Len(down[hostId']) + 1] = YouAreHostMsg
        /\ ClientHandles(c, "you_are_host") => cl'[c].isHost
    ]_vars

\* C7: while a peer d that has left is still in the registry of a connected peer
\* c, or a state message of d is still on its way to c, the relay's disconnect
\* notice for d is on its way to c behind every such message; so once c has
\* handled the notice, d is in c's registry no more and nothing can bring it back.
C7_RemovedVehicleStaysRemoved ==
    \A c \in Ids, d \in Ids :
        (cl[c].sock = "open" /\ Left(d)) =>
            LET statesOfD == {i \in 1..Len(down[c]) :
                                down[c][i].type = "state" /\ down[c][i].sender = d}
                notices == {i \in 1..Len(down[c]) : down[c][i] = DisconnectMsg(d)}
            IN (d \in DOMAIN cl[c].remotePlayers \/ statesOfD # {}) =>
                 \E j \in notices : \A i \in statesOfD : i < j

\* Peer 1 had the car of peer 2 (it pushed it: peer 3 still has to read the
\* relayed copy), peer 2 has left, and peer 1 has handled everything sent to it:
\* the car of peer 2 is gone from its registry.
C7_Witness ==
    /\ Left(2) /\ cl[1].sock = "open" /\ down[1] = <<>>
    /\ 2 \notin DOMAIN cl[1].remotePlayers
    /\ \E i \in 1..Len(down[3]) :
          /\ down[3][i].type = "collision_push"
          /\ down[3][i].sender = 1 /\ down[3][i].id = 2

\* C8: a collision_push whose target has left when the relay handles it is
\* forwarded to no target: the relay only relays it to the other peers and
\* changes nothing else, and a peer that handles a push for a peer that has left
\* leaves its own car (position, speed) as it is.
C8_PushForRemovedTargetDropped ==
    [][\A c \in Ids :
        /\ (RelayHandles(c, "collision_push") /\ Left(Head(up[c]).id)) =>
              /\ UNCHANGED <<playerStates, gameActive, roundInProgress, hostId, cl>>
              /\ \A d \in Ids :
                    down'[d] = IF d \in wsOpen \ {c}
                               THEN Append(down[d], [Head(up[c]) EXCEPT !.sender = c])
                               ELSE down[d]
        /\ (ClientHandles(c, "collision_push") /\ Left(Head(down[c]).id)) =>
              cl'[c] = cl[c]
    ]_vars

\* The relay has handled a push with a force for a peer that had left (the
\* relayed copy lies behind the disconnect notice on the way to a third peer,
\* whose car rests where it was spawned).
C8_Witness ==
    \E c \in Ids :
        /\ cl[c].sock = "open" /\ c \in wsOpen
        /\ cl[c].car.mesh /\ cl[c].car.x = 0 /\ ~cl[c].car.moved
        /\ Len(down[c]) >= 2
        /\ down[c][1].type = "disconnect" /\ Left(down[c][1].id)
        /\ down[c][2].type = "collision_push" /\ down[c][2].id = down[c][1].id
        /\ down[c][2].force # 0

\* C9: handling a state message, whether it came through the relay or not,
\* leaves the local car (position, speed, lives, lap, cleared set) as it is, and
\* never puts the client's own id in its registry of remote players.
C9_StateMessagesLeaveLocalCar ==
    [][\A c \in Ids :
        ( \/ ClientHandles(c, "state")
          \/ (cl'[c] # cl[c] /\ UNCHANGED <<relayVars, sent, up, down, fr>>) ) =>
            /\ cl'[c].car = cl[c].car
            /\ cl'[c].localId = cl[c].localId
            /\ cl'[c].localId \notin DOMAIN cl'[c].remotePlayers
    ]_vars

\* The client holds a remote snapshot that differs from its own car in lives and
\* lap, while its own car is mid-lap at speed.
C9_Witness ==
    /\ cl[1].localId = 1
    /\ 2 \in DOMAIN cl[1].remotePlayers
    /\ cl[1].remotePlayers[2].isDead /\ cl[1].remotePlayers[2].currentLap = 1
    /\ cl[1].car.lives = StartLives /\ cl[1].car.currentLap = 0
    /\ cl[1].car.speed = 100 /\ cl[1].car.checkpointsCleared # {}

\* C10: in the collision check of a frame, when the check triggers (the cooldown
\* is armed), the attacker's position is unchanged and its speed is multiplied
\* by 0.92, so it does not grow.
C10_AttackerKeepsPosition ==
    [][\A c \in Ids :
        ( /\ fr.phase = "idle" /\ fr'.phase = "wall" /\ fr'.c = c
          /\ cl'[c].car.collisionCooldown = CollisionCooldownTime ) =>
            /\ cl'[c].car.x = cl[c].car.x
            /\ cl'[c].car.moved = cl[c].car.moved
            /\ cl'[c].car.speed = Scale(cl[c].car.speed, AttackerSpeedPct)
            /\ Abs(cl'[c].car.speed) <= Abs(cl[c].car.speed)
    ]_vars

\* The collision check of a car at speed 100 has just triggered: the push is on
\* the wire, the speed is 92.
C10_Witness ==
    /\ fr.c = 1 /\ fr.phase = "wall"
    /\ cl[1].car.collisionCooldown = CollisionCooldownTime
    /\ cl[1].car.speed = 92
    /\ up[1] # <<>> /\ up[1][Len(up[1])].type = "collision_push"

\* C11: when the collision check of a car triggers, the frame time that has
\* passed since its previous trigger is at least the cooldown time (0.5 s).
C11_NoPushWithinCooldown ==
    [][\A c \in Ids :
        ( /\ fr.phase = "idle" /\ fr'.phase = "wall" /\ fr'.c = c
          /\ cl'[c].car.collisionCooldown = CollisionCooldownTime ) =>
            cl[c].car.sinceHit + fr'.dt >= CollisionCooldownTime
    ]_vars

\* C12: handling a collision_push leaves the position of the receiving car as it
\* is (the push would go to a knockback velocity applied by later frames).
C12_PushDoesNotSnapPosition ==
    [][\A c \in Ids :
        ClientHandles(c, "collision_push") => cl'[c].car.x = cl[c].car.x
    ]_vars

\* The relay puts a game_over naming w on a connection in this step; a player
\* that is out of the round: disconnected, dead or without lives.
GameOverDeclared(w) ==
    \E d \in Ids : \E i \in (Len(down[d]) + 1)..Len(down'[d]) :
        down'[d][i] = GameOverMsg(w)

IsOut(ps, open, d) ==
    \/ d \notin open
    \/ d \in DOMAIN ps /\ (ps[d].isDead \/ ps[d].lives <= 0)

\* C13: the relay sends a game_over naming a winner only in a round in progress,
\* and the winner is a connected player of the round that is alive while the
\* round has at least one other player and each other player of the round has no
\* life left, has fallen out or has disconnected.
C13_WinnerIsLastAlive ==
    [][\A w \in Ids :
        GameOverDeclared(w) =>
            /\ roundInProgress
            /\ w \in roundPlayers /\ w \in wsOpen'
            /\ ~IsOut(playerStates', wsOpen', w)
            /\ roundPlayers \ {w} # {}
            /\ \A d \in roundPlayers \ {w} : IsOut(playerStates', wsOpen', d)
    ]_vars

\* C14: a peer whose entry is deleted while it stays connected had its last state
\* update (or its connection) more than 30 s before the deletion, and an entry
\* that is more than 30 s old is eventually deleted or refreshed.
C14_PurgedIffSilent ==
    /\ [][\A id \in Ids :
            ( /\ id \in DOMAIN playerStates /\ id \notin DOMAIN playerStates'
              /\ id \in wsOpen' ) =>
                now' - playerStates[id].lastUpdate > 30000
        ]_vars
    /\ \A id \in Ids :
            (id \in DOMAIN playerStates /\ now - playerStates[id].lastUpdate > 30000)
                ~> ( \/ id \notin DOMAIN playerStates
                     \/ now - playerStates[id].lastUpdate <= 30000 )

\* Peer 1 joined at the start, sent state often enough to be kept by both firings
\* of the timer, and peer 2, silent since it joined, has been purged while connected.
C14_Witness ==
    /\ now = MaxNowPurge
    /\ 1 \in DOMAIN playerStates /\ playerStates[1].lastUpdate >= 90000
    /\ 2 \in wsOpen /\ 2 \notin DOMAIN playerStates

\* The type tags of the texts that are no message of the protocol.
MalformedTypes == {m.type : m \in Malformed}

\* C15: when the relay handles a text that is no message of the protocol it
\* changes none of its state, puts nothing on any connection and keeps the
\* connection; when a client handles one it changes nothing of its own.
C15_MalformedDiscarded ==
    [][\A c \in Ids :
        /\ (\E t \in MalformedTypes : RelayHandles(c, t)) =>
              /\ UNCHANGED <<playerStates, gameActive, roundInProgress, hostId>>
              /\ down' = down
              /\ c \in wsOpen'
        /\ (\E t \in MalformedTypes : ClientHandles(c, t)) => cl'[c] = cl[c]
    ]_vars

\* Some keyboard input makes the physics step of a frame change the car.
Drivable(g) ==
    \E speed \in Speeds, move \in {-1, 0, 1} : UpdatePhysics(g, 500, speed, move) # g.car

\* C16: a client without a connection (lost, or never established) whose car is
\* loaded and alive can still be driven: some keyboard input makes the physics
\* step of its frame change the car.
C16_OfflineCarDrivable ==
    \A c \in Ids :
        (cl[c].sock = "closed" /\ cl[c].car.mesh /\ ~cl[c].car.isDead) => Drivable(cl[c])

\* C17: the dt a frame hands to its steps is at most one second, whatever the
\* time since the previous frame.
C17_FrameDtClamped == fr.dt <= 1000

C19_LerpApproachesPrediction ==
    [][\A e \in FrameGaps :
        pose' = Interpolate(pose, FrameDt(e)) =>
            LET pred == PredictedPos(pose, FrameDt(e))
            IN /\ Abs(pred - pose'.pos) <= Abs(pred - pose.pos)
               /\ Abs(pred - pose.pos) >= 4 => Abs(pred - pose'.pos) < Abs(pred - pose.pos)
               /\ (pred - pose'.pos) * (pred - pose.pos) >= 0
    ]_vars

\* The vehicle, rendered at the origin when its last snapshot put the target at
\* 100 with no velocity, has been moved most of the way there.
C19_Witness ==
    /\ pose.targetPos = 100 /\ pose.velocity = 0
    /\ pose.pos > 90 /\ pose.pos < 100

\* C20: the yaw difference a tick applies lies in [-PI, PI].
C20_YawDiffWrapped ==
    [][pose'.rotY # pose.rotY =>
          /\ RotDiff(pose.targetRot, pose.rotY) >= -PI
          /\ RotDiff(pose.targetRot, pose.rotY) <= PI
    ]_vars

\* C30: a client puts a collision_push on the wire only in a frame in which its
\* car may move (alive, a round active on the client, canPlay).
C30_NoPushWhenImmobile ==
    [][\A c \in Ids :
        (\E i \in 1..Len(NewlySent(c)) : NewlySent(c)[i].type = "collision_push") =>
            CanMove(cl[c])
    ]_vars

\* The messages the relay puts on connection d in this step that the push handler
\* of client d will apply (collision_push with target d).
PushesDelivered(d) ==
    {i \in (Len(down[d]) + 1)..Len(down'[d]) :
        down'[d][i].type = "collision_push" /\ down'[d][i].id = d}

\* C25: when the relay handles a collision_push, the targeted client is handed the
\* impulse exactly once and no other client is handed an impulse for its own car.
C25_PushDeliveredOnce ==
    [][\A c \in Ids :
        RelayHandles(c, "collision_push") =>
            \A d \in wsOpen :
                Cardinality(PushesDelivered(d)) = IF d = Head(up[c]).id THEN 1 ELSE 0
    ]_vars

\* The types of the messages the relay originates.
RelayTypes == {m.type : m \in Forged}

\* C28: when the relay handles a message of one of its own types sent by a
\* client, it puts no message of that type on any connection.
C28_RelayTypesNotForwarded ==
    [][\A c \in Ids : \A t \in RelayTypes :
        RelayHandles(c, t) =>
            \A d \in Ids : \A i \in (Len(down[d]) + 1)..Len(down'[d]) :
                down'[d][i].type # t
    ]_vars

\* C27: a peer that connects while a game is active is registered and welcomed
\* with canPlay false; a client welcomed so may not move; a winner the relay names
\* is a playable player; and when the relay handles the host's start_game every
\* connected peer is a playable player with full lives, as is every client that
\* handles the game_restart.
C27_LateJoinerWaitsForNextRound ==
    [][\A c \in Ids :
        /\ (c \notin wsOpen /\ c \in wsOpen' /\ (gameActive \/ roundInProgress)) =>
              /\ ~playerStates'[c].canPlay
              /\ down'[c] = <<WelcomeMsg(c, c = hostId', FALSE, gameActive)>>
        /\ (ClientHandles(c, "welcome") /\ ~Head(down[c]).canPlay) => ~CanMove(cl'[c])
        /\ GameOverDeclared(c) =>
              c \in DOMAIN playerStates' /\ playerStates'[c].canPlay
        /\ (RelayHandles(c, "start_game") /\ c = hostId) =>
              \A d \in wsOpen :
                  /\ d \in DOMAIN playerStates'
                  /\ playerStates'[d].canPlay /\ playerStates'[d].lives = StartLives
        /\ ClientHandles(c, "game_restart") =>
              cl'[c].canPlay /\ cl'[c].car.lives = StartLives
    ]_vars

\* C26: during a round that started with two players or more, whenever at most
\* one playable player is left alive in the relay's table, the round eventually
\* ends (roundInProgress and gameActive false).
C26_RoundEndsWhenOneLeft ==
    (/\ roundInProgress
     /\ Cardinality(roundPlayers) >= 2
     /\ Cardinality(AlivePlayers(playerStates)) <= 1)
        ~> (~roundInProgress /\ ~gameActive)

\* The frame's fall-off check found client c's car out of bounds.
Fell(c) ==
    \E i \in 1..Len(NewlySent(c)) : NewlySent(c)[i].type = "lives_update"

\* C24: a car has at most 3 lives; a fall during a round leaves the car with
\* exactly one life less than before (the respawn restores none), and a car left
\* with no life is dead.
C24_FallCostsOneLife ==
    [][\A c \in Ids :
        /\ cl'[c].car.lives <= StartLives
        /\ (cl[c].isGameActive /\ Fell(c)) =>
              /\ cl'[c].car.lives = cl[c].car.lives - 1
              /\ cl'[c].car.lives = 0 => cl'[c].car.isDead
    ]_vars

\* C22: in a tick that comes less than the regeneration delay after the last
\* tick that drained boost energy, the boost energy does not increase.
C22_NoRegenBeforeDelay ==
    [][(boost'.drained /\ boost'.sinceDrain < EnergyRegenDelay) =>
           boost'.boostEnergy <= boost.boostEnergy
    ]_vars

\* The energy has regenerated after a drain, once the delay had passed.
C22_Witness ==
    /\ boost.drained /\ boost.sinceDrain >= EnergyRegenDelay
    /\ boost.energyRegenTimer >= EnergyRegenDelay
    /\ boost.boostEnergy > 0 /\ boost.boostEnergy < BoostMaxEnergy

\* C23: from one tick to the next the segment the car's surface query resolves
\* to is the same segment or one of its two neighbours.
C23_SegmentSameOrNeighbour ==
    [][ride.segmentId # NoSegment =>
           ride'.segmentId \in {ride.segmentId, PrevSegment(ride.segmentId),
                                NextSegment(ride.segmentId)}
    ]_vars

\* The point of the centreline nearest to the car in the horizontal plane: the
\* skeleton and the position are flattened before the projection.
NearestOnCentreline ==
    ClosestEdge([i \in 1..Len(SkeletonXZ) |-> Point(SkeletonXZ[i][1], 0, SkeletonXZ[i][2])],
                [ride.position EXCEPT !.y = 0])
\* halfWidth - vehicleRadius, squared
MaxDistance2 == (TrackWidth \div 2 - CarRadius) * (TrackWidth \div 2 - CarRadius)

\* C21: the wall check of the car's position answers null exactly when the
\* horizontal distance from the position to the nearest skeleton edge is at most
\* halfWidth - vehicleRadius; otherwise the penetration depth is positive and
\* is the excess of that distance, and the correction vector has no y component
\* and points toward the centreline.
C21_WallCheckMatchesDistance ==
    LET w == CheckWallCollision(ride.track, ride.position)
        c == NearestOnCentreline
    IN /\ (w = NoCollision) <=> (c.dn <= MaxDistance2 * c.len2 * c.len2)
       /\ w.isColliding =>
             /\ w.dn > MaxDistance2 * w.den
             /\ RatEq(w.dn, w.den, c.dn, c.len2 * c.len2)
             /\ w.correctionVector.y = 0
             /\ w.correctionVector.x * c.ox + w.correctionVector.z * c.oz > 0

\* C29: any two connected clients that are playing the round (each has handled
\* its game_restart and may play) have the same track layout.
C29_SameTrackInRound ==
    \A c, d \in Ids :
        (/\ cl[c].sock = "open" /\ cl[c].isGameActive /\ cl[c].canPlay
         /\ cl[d].sock = "open" /\ cl[d].isGameActive /\ cl[d].canPlay)
            => track[c] = track[d]

====
